---- MODULE Spec2Model ----
(***************************************************************************)
(* A model of backend/server.js: one MySQL table `transactions`, the       *)
(* start-up bootstrap that seeds it when empty, the manual re-seed         *)
(* endpoint GET /api/init, and the five month-filtered query endpoints     *)
(* (transactions, statistics, barchart, piechart, combined).               *)
(*                                                                         *)
(* Every `await` of the source is a point where other handlers may run,    *)
(* so every awaited store query is one step of the model; the code that    *)
(* runs synchronously after an await belongs to the same step.             *)
(*                                                                         *)
(* Representation.                                                         *)
(*  - price DECIMAL(10,2) is an integer number of hundredths (cents).      *)
(*  - date_of_sale is a record [year, month, day].                         *)
(*  - title, description and the search text are sequences of characters,  *)
(*    each a one-character string, so that LIKE and trim() are computed    *)
(*    character by character; a white-space character that has no escape   *)
(*    in a TLA+ string is written by its code point ("U+00A0").  A         *)
(*    category is one character.  The alphabet is ASCII: the collation's   *)
(*    folding of accents is not modelled.                                  *)
(*  - the image column is not read by any predicate and is left out.       *)
(*  - a row set without ORDER BY is read in primary-key order (InnoDB's    *)
(*    clustered index scan); the rows of GROUP BY category, whose order    *)
(*    SQL leaves open, are a set.                                          *)
(*  - query-string values are JavaScript strings; a numeric one is written *)
(*    as <<n>> for the integer n it denotes, an absent one as NoValue.     *)
(***************************************************************************)
EXTENDS Integers, Sequences, FiniteSets, TLC

VARIABLES
    tableExists,  \* the table `transactions` exists in the database
    store,        \* the rows of `transactions`
    remote,       \* the JSON array the dataset URL serves
    poolInUse,    \* connections checked out of `pool`
    boot,         \* the start-up async function (lines 24-76)
    reseed,       \* the GET /api/init requests in flight
    handler       \* the query request in flight, with the three requests
                  \* /api/combined has sent for it, and its response

vars == <<tableExists, store, remote, poolInUse, boot, reseed, handler>>

----------------------------------------------------------------------------
(* Values *)

\* a query-string value: a month is a string; page and perPage are <<n>> for
\* the string that denotes n, and NoValue when the parameter is absent
Undefined == "undefined"
NoValue == <<>>
\* SUM over no rows
Null == <<>>
\* Math.ceil(total / 0) for total > 0, which JSON.stringify writes as null;
\* no number of pages is negative
Infinity == -1

connectionLimit == 10

months == <<"January", "February", "March", "April", "May", "June",
            "July", "August", "September", "October", "November", "December">>

Min(a, b) == IF a < b THEN a ELSE b
Max(a, b) == IF a > b THEN a ELSE b

----------------------------------------------------------------------------
(* JavaScript helpers *)

\* Array.prototype.includes
Includes(arr, x) == \E i \in 1..Len(arr) : arr[i] = x

\* Array.prototype.indexOf: 0-based, -1 when absent
IndexOf(arr, x) ==
    IF Includes(arr, x)
    THEN (CHOOSE i \in 1..Len(arr) : arr[i] = x /\ \A j \in 1..(i-1) : arr[j] # x) - 1
    ELSE -1

\* !month || !months.includes(month)
\* (MonthRejectedLoose: the test without the months.includes part)
MonthRejectedLoose(month) == month = Undefined
MonthRejected(month) ==
    month = Undefined \/ month = "" \/ ~Includes(months, month)

\* months.indexOf(month) + 1
\* (MonthNumZeroBased: the index without the + 1)
MonthNumZeroBased(month) == IndexOf(months, month)
MonthNum(month) == IndexOf(months, month) + 1

\* the characters String.prototype.trim removes: ECMAScript WhiteSpace
\* (TAB, VT, FF, SP, NBSP, ZWNBSP and the space separators of Unicode) and
\* LineTerminator (LF, CR, LS, PS)
WhiteSpace ==
    {"\t", "U+000B", "\f", " ", "U+00A0", "U+FEFF",
     "U+1680", "U+2000", "U+2001", "U+2002", "U+2003", "U+2004", "U+2005",
     "U+2006", "U+2007", "U+2008", "U+2009", "U+200A", "U+202F", "U+205F",
     "U+3000",
     "\n", "\r", "U+2028", "U+2029"}
IsSpace(c) == c \in WhiteSpace

\* String.prototype.trim
RECURSIVE TrimLeft(_)
TrimLeft(s) == IF s # <<>> /\ IsSpace(Head(s)) THEN TrimLeft(Tail(s)) ELSE s
RECURSIVE TrimRight(_)
TrimRight(s) ==
    IF s # <<>> /\ IsSpace(s[Len(s)]) THEN TrimRight(SubSeq(s, 1, Len(s) - 1)) ELSE s
Trim(s) == TrimRight(TrimLeft(s))

\* Math.ceil(a / b) for a >= 0, b >= 1
CeilDiv(a, b) == (a + b - 1) \div b

----------------------------------------------------------------------------
(* SQL helpers *)

\* MONTH(date_of_sale)
MONTH(d) == d.month

\* the table's collation (the server's default, a *_ci one) compares letters
\* without regard to case
UpperCase == <<"A", "B", "C", "D", "E", "F", "G", "H", "I", "J", "K", "L", "M",
               "N", "O", "P", "Q", "R", "S", "T", "U", "V", "W", "X", "Y", "Z">>
LowerCase == <<"a", "b", "c", "d", "e", "f", "g", "h", "i", "j", "k", "l", "m",
               "n", "o", "p", "q", "r", "s", "t", "u", "v", "w", "x", "y", "z">>
Fold(c) ==
    IF \E i \in 1..Len(UpperCase) : UpperCase[i] = c
    THEN LowerCase[CHOOSE i \in 1..Len(UpperCase) : UpperCase[i] = c]
    ELSE c
FoldAll(s) == [i \in 1..Len(s) |-> Fold(s[i])]

\* text LIKE pattern: % is any run of characters, _ any one character, and
\* a backslash takes the character after it literally
RECURSIVE LikeMatch(_, _)
LikeMatch(t, p) ==
    IF p = <<>> THEN t = <<>>
    ELSE IF Head(p) = "%"
    THEN LikeMatch(t, Tail(p)) \/ (t # <<>> /\ LikeMatch(Tail(t), p))
    ELSE IF t = <<>> THEN FALSE
    ELSE IF Head(p) = "_" THEN LikeMatch(Tail(t), Tail(p))
    ELSE IF Head(p) = "\\" /\ Len(p) >= 2
    THEN Head(t) = p[2] /\ LikeMatch(Tail(t), Tail(Tail(p)))
    ELSE Head(t) = Head(p) /\ LikeMatch(Tail(t), Tail(p))

\* text LIKE ? with the parameter `%${search}%`
Like(text, search) == LikeMatch(FoldAll(text), <<"%">> \o FoldAll(search) \o <<"%">>)

Digit(n) == CASE n = 0 -> "0" [] n = 1 -> "1" [] n = 2 -> "2" [] n = 3 -> "3"
              [] n = 4 -> "4" [] n = 5 -> "5" [] n = 6 -> "6" [] n = 7 -> "7"
              [] n = 8 -> "8" [] n = 9 -> "9"
RECURSIVE Digits(_)
Digits(n) == IF n < 10 THEN <<Digit(n)>> ELSE Append(Digits(n \div 10), Digit(n % 10))

\* CAST(price AS CHAR) of a non-negative DECIMAL(10,2): "150.00"
CastPriceAsChar(price) ==
    Digits(price \div 100) \o <<".", Digit((price % 100) \div 10), Digit(price % 10)>>

\* rows in primary-key order
RECURSIVE ById(_)
ById(rows) ==
    IF rows = {} THEN <<>>
    ELSE LET r == CHOOSE x \in rows : \A y \in rows : x.id <= y.id
         IN <<r>> \o ById(rows \ {r})

RECURSIVE SumPrice(_)
SumPrice(rows) ==
    IF rows = {} THEN 0
    ELSE LET r == CHOOSE x \in rows : TRUE IN r.price + SumPrice(rows \ {r})

----------------------------------------------------------------------------
(* The SQL statements of the handlers, as functions of the table's rows *)

\* WHERE MONTH(date_of_sale) = ?
InMonth(rows, monthNum) == {r \in rows : MONTH(r.date_of_sale) = monthNum}

\* AND (title LIKE ? OR description LIKE ? OR CAST(price AS CHAR) LIKE ?),
\* added when search.trim() is not empty; the pattern is `%${search}%`,
\* built from the search text as given (not trimmed)
SearchMatches(r, search) ==
    \/ Like(r.title, search)
    \/ Like(r.description, search)
    \/ Like(CastPriceAsChar(r.price), search)

Matching(rows, monthNum, search) ==
    {r \in InMonth(rows, monthNum) : Trim(search) # <<>> => SearchMatches(r, search)}

\* if (perPage)  -- a query-string value is a string: only "" and the
\* absent parameter are falsy, "0" is not
PerPageGiven(perPage) == perPage # NoValue

\* page = 1 by default
PageOf(page) == IF page = NoValue THEN 1 ELSE page[1]

\* const offset = (page - 1) * perPage
\* (OffsetFromZeroBased: the offset of pages counted from 0)
OffsetFromZeroBased(page, perPage) == PageOf(page) * perPage[1]
Offset(page, perPage) == (PageOf(page) - 1) * perPage[1]

\* LIMIT ${perPage} OFFSET ${offset} is a syntax error for a negative number
LimitIsError(page, perPage) ==
    PerPageGiven(perPage) /\ (perPage[1] < 0 \/ Offset(page, perPage) < 0)

\* SELECT * FROM transactions WHERE ... [LIMIT perPage OFFSET offset]
SelectTransactions(rows, monthNum, search, page, perPage) ==
    LET all == ById(Matching(rows, monthNum, search))
    IN IF PerPageGiven(perPage)
       THEN SubSeq(all, Offset(page, perPage) + 1,
                   Min(Len(all), Offset(page, perPage) + perPage[1]))
       ELSE all

\* SELECT COUNT(*) as total FROM transactions WHERE ...
CountTransactions(rows, monthNum, search) ==
    Cardinality(Matching(rows, monthNum, search))

\* perPage ? Math.ceil(total / perPage) || 1 : 1
\* (total / 0 is Infinity, or NaN for total = 0; NaN || 1 is 1)
TotalPages(total, perPage) ==
    IF ~PerPageGiven(perPage) THEN 1
    ELSE IF perPage[1] = 0 THEN (IF total = 0 THEN 1 ELSE Infinity)
    ELSE IF CeilDiv(total, perPage[1]) = 0 THEN 1 ELSE CeilDiv(total, perPage[1])

\* res.send({transactions, total, page, perPage, totalPages})
TransactionsBody(transactions, total, page, perPage) ==
    [transactions |-> transactions,
     total |-> total,
     page |-> IF PerPageGiven(perPage) THEN PageOf(page) ELSE 1,
     perPage |-> IF PerPageGiven(perPage) THEN perPage[1] ELSE total,
     totalPages |-> TotalPages(total, perPage)]

\* SELECT SUM(price) ... AND sold = TRUE   (NULL over no rows)
SumSold(rows, monthNum) ==
    LET sold == {r \in InMonth(rows, monthNum) : r.sold}
    IN IF sold = {} THEN Null ELSE <<SumPrice(sold)>>

\* SELECT COUNT(*) ... AND sold = TRUE / AND sold = FALSE
\* (CountSoldAny: the count without the sold condition)
CountSoldAny(rows, monthNum, flag) == Cardinality(InMonth(rows, monthNum))
CountSold(rows, monthNum, flag) ==
    Cardinality({r \in InMonth(rows, monthNum) : r.sold = flag})

\* parseFloat(totalSaleResult[0].total) || 0
OrZero(x) == IF x = Null THEN 0 ELSE x[1]

\* res.send({totalSale, soldItems, notSoldItems}); parseInt(count) || 0 of a
\* count is the count
StatisticsBody(total, soldCount, notSoldCount) ==
    [totalSale |-> OrZero(total),
     soldItems |-> soldCount,
     notSoldItems |-> notSoldCount]

\* the ten labels, in the ascending order ORDER BY _id gives these strings
BucketLabels == <<"0-100", "101-200", "201-300", "301-400", "401-500",
                  "501-600", "601-700", "701-800", "801-900", "901-above">>

\* price BETWEEN lo AND hi, price in hundredths
Between(price, lo, hi) == lo * 100 <= price /\ price <= hi * 100

\* CASE WHEN price BETWEEN 0 AND 100 THEN '0-100' ... ELSE '901-above' END
\* (PriceLabelExclusive: the second range with its limits excluded)
PriceLabelExclusive(price) ==
    CASE Between(price, 0, 100) -> "0-100"
      [] price > 101 * 100 /\ price < 200 * 100 -> "101-200"
      [] Between(price, 201, 300) -> "201-300"
      [] Between(price, 301, 400) -> "301-400"
      [] Between(price, 401, 500) -> "401-500"
      [] Between(price, 501, 600) -> "501-600"
      [] Between(price, 601, 700) -> "601-700"
      [] Between(price, 701, 800) -> "701-800"
      [] Between(price, 801, 900) -> "801-900"
      [] OTHER -> "901-above"
PriceLabel(price) ==
    CASE Between(price, 0, 100) -> "0-100"
      [] Between(price, 101, 200) -> "101-200"
      [] Between(price, 201, 300) -> "201-300"
      [] Between(price, 301, 400) -> "301-400"
      [] Between(price, 401, 500) -> "401-500"
      [] Between(price, 501, 600) -> "501-600"
      [] Between(price, 601, 700) -> "601-700"
      [] Between(price, 701, 800) -> "701-800"
      [] Between(price, 801, 900) -> "801-900"
      [] OTHER -> "901-above"

\* SELECT CASE ... END AS _id, COUNT(*) as count ... GROUP BY CASE ... END
\* ORDER BY _id : one row per label that some row of the month has
RECURSIVE BarRows(_, _)
BarRows(rows, i) ==
    IF i > Len(BucketLabels) THEN <<>>
    ELSE LET n == Cardinality({r \in rows : PriceLabel(r.price) = BucketLabels[i]})
         IN (IF n = 0 THEN <<>> ELSE <<[_id |-> BucketLabels[i], count |-> n]>>)
            \o BarRows(rows, i + 1)
BarChartQuery(rows, monthNum) == BarRows(InMonth(rows, monthNum), 1)

\* SELECT category AS _id, COUNT(*) as count ... GROUP BY category
\* the groups are those of the collation (categories that differ in case
\* only are one group); _id is the category of the group's first row read
PieChartQuery(rows, monthNum) ==
    LET m == InMonth(rows, monthNum)
        group(r) == {x \in m : Fold(x.category) = Fold(r.category)}
        first(g) == CHOOSE x \in g : \A y \in g : x.id <= y.id
    IN {[_id |-> first(group(r)).category, count |-> Cardinality(group(r))] :
            r \in m}

----------------------------------------------------------------------------
(* The dataset and the table *)

Item1 == [id |-> 1, title |-> <<"a", "b">>, description |-> <<"A">>,
          price |-> 5000, category |-> "A", sold |-> TRUE,
          dateOfSale |-> [year |-> 2022, month |-> 3, day |-> 5]]
Item2 == [id |-> 2, title |-> <<"b">>, description |-> <<"B", " ", "a">>,
          price |-> 15000, category |-> "B", sold |-> FALSE,
          dateOfSale |-> [year |-> 2023, month |-> 3, day |-> 20]]
Item3 == [id |-> 3, title |-> <<"a">>, description |-> <<"b">>,
          price |-> 10050, category |-> "A", sold |-> TRUE,
          dateOfSale |-> [year |-> 2021, month |-> 11, day |-> 27]]

\* the JSON arrays the dataset URL may serve: a well-formed one, and one
\* in which an id occurs twice
DataGood == <<Item1, Item2>>
DataDup == <<Item3, Item3>>
DataEmpty == <<>>
Datasets == {DataGood, DataDup, DataEmpty}

\* the parameters of INSERT INTO transactions (id, title, description, price,
\* category, image, sold, date_of_sale) VALUES (?, ...), taken from the item
RowOf(item) ==
    [id |-> item.id, title |-> item.title, description |-> item.description,
     price |-> item.price, category |-> item.category, sold |-> item.sold,
     date_of_sale |-> item.dateOfSale]

RowsOf(data) == {RowOf(data[i]) : i \in 1..Len(data)}

\* id INT PRIMARY KEY: an INSERT of an id the table holds fails
DuplicateKey(rows, row) == \E r \in rows : r.id = row.id

\* rows a previous run of the server left in the table
OldRow == [id |-> 9, title |-> <<"a">>, description |-> <<"a">>,
           price |-> 95000, category |-> "C", sold |-> FALSE,
           date_of_sale |-> [year |-> 2020, month |-> 3, day |-> 1]]
OldStore == {OldRow}

----------------------------------------------------------------------------
(* Responses and handler records *)

NoResp == [status |-> 0]
Resp(status, body) == [status |-> status, body |-> body]

Endpoints == {"transactions", "statistics", "barchart", "piechart", "combined"}
\* the three requests /api/combined sends with axios.get to the host named
\* in the source
CombinedCalls == {"statistics", "barchart", "piechart"}
\* the request a client has in flight
Slots == {"client"}

\* an axios.get of /api/combined: not sent, pending, resolved with the
\* data <<body>> of a 2xx answer, or rejected
NoCall == [pc |-> "none", data |-> <<>>]
PendingCall == [pc |-> "pending", data |-> <<>>]
ResolvedCall(body) == [pc |-> "resolved", data |-> <<body>>]
RejectedCall == [pc |-> "rejected", data |-> <<>>]

IdleHandler ==
    [kind |-> "none", month |-> Undefined, search |-> <<>>, page |-> NoValue,
     perPage |-> NoValue, pc |-> "idle", acc |-> <<>>, reads |-> {},
     dbCalls |-> 0, outCalls |-> 0,
     calls |-> [c \in CombinedCalls |-> NoCall], resp |-> NoResp]

\* const { month, search = '', page = 1, perPage } = req.query  (transactions)
\* const { month } = req.query                                   (the others)
\* followed by the month check, which answers 400 before anything else
NewHandler(kind, q) ==
    LET h == [IdleHandler EXCEPT
                !.kind = kind,
                !.month = q.month,
                !.search = IF kind = "transactions" THEN q.search ELSE <<>>,
                !.page = IF kind = "transactions" THEN q.page ELSE NoValue,
                !.perPage = IF kind = "transactions" THEN q.perPage ELSE NoValue]
    IN IF MonthRejected(q.month)
       THEN [h EXCEPT !.pc = "done", !.resp = Resp(400, "Invalid month")]
       ELSE IF kind = "combined"
       THEN [h EXCEPT !.pc = "wait", !.outCalls = 3,
                      !.calls = [c \in CombinedCalls |-> PendingCall]]
       ELSE [h EXCEPT !.pc = "q1"]

MonthOnly(m) == [month |-> m, search |-> <<>>, page |-> NoValue, perPage |-> NoValue]

\* pool.query: takes a free connection for the one statement and gives it
\* back; the statement fails when the table is missing, and may fail for
\* any other reason (the server is gone, the connection breaks)
CanQuery == poolInUse < connectionLimit
QueryOutcomes == IF tableExists THEN {"ok", "error"} ELSE {"error"}

IdleReseed == [pc |-> "idle", idx |-> 0, resp |-> NoResp]

IdleBoot == [pc |-> "connect", idx |-> 0, conn |-> 0, error |-> FALSE]

----------------------------------------------------------------------------
(* The start-up function, lines 24-76.  Its catch block logs and returns;  *)
(* conn.release() is the last statement of the try block.                  *)

BootCaught == [boot EXCEPT !.pc = "done", !.error = TRUE]
BootReleased == [boot EXCEPT !.pc = "done", !.conn = 0]

\* const conn = await pool.getConnection()
BootConnect ==
    /\ boot.pc = "connect"
    /\ \/ /\ poolInUse < connectionLimit
          /\ boot' = [boot EXCEPT !.pc = "create", !.conn = 1]
          /\ poolInUse' = poolInUse + 1
       \/ /\ boot' = BootCaught
          /\ UNCHANGED poolInUse
    /\ UNCHANGED <<tableExists, store, remote, reseed, handler>>

\* await conn.query(`CREATE TABLE IF NOT EXISTS transactions (...)`)
BootCreateTable ==
    /\ boot.pc = "create"
    /\ \/ /\ tableExists' = TRUE
          /\ boot' = [boot EXCEPT !.pc = "count"]
       \/ /\ boot' = BootCaught
          /\ UNCHANGED tableExists
    /\ UNCHANGED <<store, remote, poolInUse, reseed, handler>>

\* await conn.query('SELECT COUNT(*) as count FROM transactions');
\* if (count === 0) {...} else {log}; conn.release()
BootCount ==
    /\ boot.pc = "count"
    /\ \/ /\ Cardinality(store) = 0
          /\ boot' = [boot EXCEPT !.pc = "fetch"]
          /\ UNCHANGED poolInUse
       \/ /\ Cardinality(store) # 0
          /\ boot' = BootReleased
          /\ poolInUse' = poolInUse - 1
       \/ /\ boot' = BootCaught
          /\ UNCHANGED poolInUse
    /\ UNCHANGED <<tableExists, store, remote, reseed, handler>>

\* const response = await axios.get(url); const seedData = response.data
BootFetch ==
    /\ boot.pc = "fetch"
    /\ \/ /\ Len(remote) > 0
          /\ boot' = [boot EXCEPT !.pc = "insert", !.idx = 1]
          /\ UNCHANGED poolInUse
       \/ /\ Len(remote) = 0
          /\ boot' = BootReleased
          /\ poolInUse' = poolInUse - 1
       \/ /\ boot' = BootCaught
          /\ UNCHANGED poolInUse
    /\ UNCHANGED <<tableExists, store, remote, reseed, handler>>

\* for (const item of seedData) { await conn.query(insertQuery, [...]) }
\* one INSERT; after the last one, conn.release()
BootInsert ==
    /\ boot.pc = "insert"
    /\ LET row == RowOf(remote[boot.idx]) IN
       \/ /\ ~DuplicateKey(store, row)
          /\ store' = store \cup {row}
          /\ IF boot.idx = Len(remote)
             THEN /\ boot' = BootReleased
                  /\ poolInUse' = poolInUse - 1
             ELSE /\ boot' = [boot EXCEPT !.idx = boot.idx + 1]
                  /\ UNCHANGED poolInUse
       \/ /\ boot' = BootCaught
          /\ UNCHANGED <<store, poolInUse>>
    /\ UNCHANGED <<tableExists, remote, reseed, handler>>

----------------------------------------------------------------------------
(* GET /api/init, lines 84-121 *)

\* the catch block: res.status(500).json({error, details})
ReseedFailed(r) ==
    [reseed EXCEPT ![r] = [IdleReseed EXCEPT
                             !.pc = "done",
                             !.resp = Resp(500, "Failed to initialize database")]]

\* the request arrives; const response = await axios.get(url)
ReseedFetch(r) ==
    /\ reseed[r].pc \in {"idle", "done"}
    /\ \/ reseed' = [reseed EXCEPT ![r] = [IdleReseed EXCEPT !.pc = "truncate"]]
       \/ reseed' = ReseedFailed(r)
    /\ UNCHANGED <<tableExists, store, remote, poolInUse, boot, handler>>

\* await pool.query('TRUNCATE TABLE transactions')
ReseedTruncate(r) ==
    /\ reseed[r].pc = "truncate"
    /\ CanQuery
    /\ \E out \in QueryOutcomes :
         IF out = "ok"
         THEN /\ store' = {}
              /\ reseed' = [reseed EXCEPT
                              ![r].pc = IF Len(remote) = 0 THEN "count" ELSE "insert",
                              ![r].idx = IF Len(remote) = 0 THEN 0 ELSE 1]
         ELSE /\ reseed' = ReseedFailed(r)
              /\ UNCHANGED store
    /\ UNCHANGED <<tableExists, remote, poolInUse, boot, handler>>

\* for (const item of seedData) { await pool.query(insertQuery, [...]) }
ReseedInsert(r) ==
    /\ reseed[r].pc = "insert"
    /\ CanQuery
    /\ LET row == RowOf(remote[reseed[r].idx]) IN
       \E out \in QueryOutcomes :
         IF out = "ok" /\ ~DuplicateKey(store, row)
         THEN /\ store' = store \cup {row}
              /\ reseed' = [reseed EXCEPT ![r] =
                              IF reseed[r].idx = Len(remote)
                              THEN [IdleReseed EXCEPT !.pc = "count"]
                              ELSE [reseed[r] EXCEPT !.idx = reseed[r].idx + 1]]
         ELSE /\ reseed' = ReseedFailed(r)
              /\ UNCHANGED store
    /\ UNCHANGED <<tableExists, remote, poolInUse, boot, handler>>

\* const [countResult] = await pool.query('SELECT COUNT(*) as count FROM
\* transactions'); res.status(200).json({message, documentCount: count})
ReseedCount(r) ==
    /\ reseed[r].pc = "count"
    /\ CanQuery
    /\ \E out \in QueryOutcomes :
         IF out = "ok"
         THEN reseed' = [reseed EXCEPT ![r] = [IdleReseed EXCEPT
                           !.pc = "done",
                           !.resp = Resp(200, [documentCount |-> Cardinality(store)])]]
         ELSE reseed' = ReseedFailed(r)
    /\ UNCHANGED <<tableExists, store, remote, poolInUse, boot, handler>>

----------------------------------------------------------------------------
(* The query handlers, lines 124-312 *)

\* What the queries of a client's request have read: reads is the set of
\* the table contents its pool.query calls have seen so far (one content
\* when no write fell between them).
Noted(c) == [c EXCEPT !.reads = c.reads \cup {store}]

\* handler s has got the result of one awaited pool.query and goes on as h
Queried(s, h) ==
    LET hs == [handler EXCEPT ![s] = [h EXCEPT !.dbCalls = handler[s].dbCalls + 1]]
    IN [hs EXCEPT !["client"] = Noted(hs["client"])]

\* the await threw: the catch block answers res.status(500).send({error})
Failed(s, msg) ==
    [handler EXCEPT ![s] = [handler[s] EXCEPT
        !.pc = "done", !.acc = <<>>, !.dbCalls = handler[s].dbCalls + 1,
        !.resp = Resp(500, msg)]]

\* res.send(body)
Answered(h, body) == [h EXCEPT !.pc = "done", !.acc = <<>>, !.resp = Resp(200, body)]

\* the query strings of P as the handler of `kind` reads them
QueriesOf(kind, P) ==
    IF kind = "transactions" THEN P ELSE {MonthOnly(q.month) : q \in P}

\* a request arrives from a client; for /api/combined with a valid month the
\* three axios.get calls are issued before the handler first awaits
ClientRequest(kinds, P) ==
    /\ \A s \in Slots : handler[s].pc = "idle"
    /\ \E kind \in kinds :
         \E q \in QueriesOf(kind, P) :
           handler' = [handler EXCEPT !["client"] = NewHandler(kind, q)]
    /\ UNCHANGED <<tableExists, store, remote, poolInUse, boot, reseed>>

\* the response has been sent: the request is over
ClientDone ==
    /\ handler["client"].pc = "done"
    /\ handler' = [handler EXCEPT !["client"] = IdleHandler]
    /\ UNCHANGED <<tableExists, store, remote, poolInUse, boot, reseed>>

\* /api/transactions: const [transactions] = await pool.query(query, params)
TransactionsSelect(s) ==
    /\ handler[s].kind = "transactions" /\ handler[s].pc = "q1"
    /\ CanQuery
    /\ LET h == handler[s] IN
       \E out \in QueryOutcomes :
         handler' =
            IF out = "error" \/ LimitIsError(h.page, h.perPage)
            THEN Failed(s, "Error processing transactions")
            ELSE Queried(s, [h EXCEPT
                    !.pc = "q2",
                    !.acc = <<SelectTransactions(store, MonthNum(h.month), h.search,
                                                 h.page, h.perPage)>>])
    /\ UNCHANGED <<tableExists, store, remote, poolInUse, boot, reseed>>

\* const [totalResult] = await pool.query(countQuery, countParams); res.send
TransactionsCount(s) ==
    /\ handler[s].kind = "transactions" /\ handler[s].pc = "q2"
    /\ CanQuery
    /\ LET h == handler[s] IN
       \E out \in QueryOutcomes :
         handler' =
            IF out = "error"
            THEN Failed(s, "Error processing transactions")
            ELSE Queried(s, Answered(h,
                    TransactionsBody(h.acc[1],
                        CountTransactions(store, MonthNum(h.month), h.search),
                        h.page, h.perPage)))
    /\ UNCHANGED <<tableExists, store, remote, poolInUse, boot, reseed>>

\* /api/statistics: SELECT SUM(price) ... sold = TRUE
StatisticsSum(s) ==
    /\ handler[s].kind = "statistics" /\ handler[s].pc = "q1"
    /\ CanQuery
    /\ LET h == handler[s] IN
       \E out \in QueryOutcomes :
         handler' =
            IF out = "error"
            THEN Failed(s, "Error calculating statistics")
            ELSE Queried(s, [h EXCEPT
                    !.pc = "q2",
                    !.acc = <<SumSold(store, MonthNum(h.month))>>])
    /\ UNCHANGED <<tableExists, store, remote, poolInUse, boot, reseed>>

\* SELECT COUNT(*) ... sold = TRUE
StatisticsSold(s) ==
    /\ handler[s].kind = "statistics" /\ handler[s].pc = "q2"
    /\ CanQuery
    /\ LET h == handler[s] IN
       \E out \in QueryOutcomes :
         handler' =
            IF out = "error"
            THEN Failed(s, "Error calculating statistics")
            ELSE Queried(s, [h EXCEPT
                    !.pc = "q3",
                    !.acc = Append(h.acc, CountSold(store, MonthNum(h.month), TRUE))])
    /\ UNCHANGED <<tableExists, store, remote, poolInUse, boot, reseed>>

\* SELECT COUNT(*) ... sold = FALSE; res.send
StatisticsNotSold(s) ==
    /\ handler[s].kind = "statistics" /\ handler[s].pc = "q3"
    /\ CanQuery
    /\ LET h == handler[s] IN
       \E out \in QueryOutcomes :
         handler' =
            IF out = "error"
            THEN Failed(s, "Error calculating statistics")
            ELSE Queried(s, Answered(h,
                    StatisticsBody(h.acc[1], h.acc[2],
                                   CountSold(store, MonthNum(h.month), FALSE))))
    /\ UNCHANGED <<tableExists, store, remote, poolInUse, boot, reseed>>

\* /api/barchart: one query; res.send(result)
BarChart(s) ==
    /\ handler[s].kind = "barchart" /\ handler[s].pc = "q1"
    /\ CanQuery
    /\ LET h == handler[s] IN
       \E out \in QueryOutcomes :
         handler' =
            IF out = "error"
            THEN Failed(s, "Error generating bar chart data")
            ELSE Queried(s, Answered(h, BarChartQuery(store, MonthNum(h.month))))
    /\ UNCHANGED <<tableExists, store, remote, poolInUse, boot, reseed>>

\* /api/piechart: one query; res.send(result)
PieChart(s) ==
    /\ handler[s].kind = "piechart" /\ handler[s].pc = "q1"
    /\ CanQuery
    /\ LET h == handler[s] IN
       \E out \in QueryOutcomes :
         handler' =
            IF out = "error"
            THEN Failed(s, "Error generating pie chart data")
            ELSE Queried(s, Answered(h, PieChartQuery(store, MonthNum(h.month))))
    /\ UNCHANGED <<tableExists, store, remote, poolInUse, boot, reseed>>

\* res.send({statistics: statistics.data, barchart: barchart.data,
\*           piechart: piechart.data})
CombinedBody(calls) ==
    [statistics |-> calls["statistics"].data[1],
     barchart |-> calls["barchart"].data[1],
     piechart |-> calls["piechart"].data[1]]

\* The host of the three URLs is outside this process.  The answers taken
\* for it are those of the deployed service over the table it has: the
\* table of this process when it is deployed on this database, or another.
HostTables == {store, {}, OldStore}
HostData(call, rows, month) ==
    CASE call = "statistics" ->
            StatisticsBody(SumSold(rows, MonthNum(month)),
                           CountSold(rows, MonthNum(month), TRUE),
                           CountSold(rows, MonthNum(month), FALSE))
      [] call = "barchart" -> BarChartQuery(rows, MonthNum(month))
      [] call = "piechart" -> PieChartQuery(rows, MonthNum(month))

\* one axios.get is answered 2xx.  When it is the last of the three,
\* Promise.all resolves and the handler sends the combined body; after an
\* earlier rejection the handler has answered already and nothing follows.
AxiosResolves(c) ==
    /\ handler["client"].calls[c].pc = "pending"
    /\ \E rows \in HostTables :
         LET h == handler["client"]
             calls == [h.calls EXCEPT ![c] = ResolvedCall(HostData(c, rows, h.month))]
             hc == [h EXCEPT !.calls = calls]
         IN handler' = [handler EXCEPT !["client"] =
                           IF h.pc = "wait" /\ \A d \in CombinedCalls : calls[d].pc = "resolved"
                           THEN Answered(hc, CombinedBody(calls))
                           ELSE hc]
    /\ UNCHANGED <<tableExists, store, remote, poolInUse, boot, reseed>>

\* one axios.get rejects (no answer, or an answer that is not 2xx):
\* Promise.all rejects with the first rejection and the catch block answers
\* 500 at once, whatever the other requests do
AxiosRejects(c) ==
    /\ handler["client"].calls[c].pc = "pending"
    /\ LET h == handler["client"]
           hc == [h EXCEPT !.calls[c] = RejectedCall]
       IN handler' = [handler EXCEPT !["client"] =
                         IF h.pc = "wait"
                         THEN [hc EXCEPT !.pc = "done",
                                         !.resp = Resp(500, "Error fetching combined data")]
                         ELSE hc]
    /\ UNCHANGED <<tableExists, store, remote, poolInUse, boot, reseed>>

Serve(s) ==
    \/ TransactionsSelect(s)
    \/ TransactionsCount(s)
    \/ StatisticsSum(s)
    \/ StatisticsSold(s)
    \/ StatisticsNotSold(s)
    \/ BarChart(s)
    \/ PieChart(s)

----------------------------------------------------------------------------
(* Start-up: the module is loaded, the start-up function runs, and         *)
(* GET /api/init requests arrive while it runs or after it                 *)

\* concurrent GET /api/init requests
MaxReseeds == 1

InitStart ==
    /\ tableExists \in BOOLEAN
    /\ store \in (IF tableExists THEN {{}, OldStore} ELSE {{}})
    /\ remote \in Datasets
    /\ poolInUse = 0
    /\ boot = IdleBoot
    /\ reseed = [r \in 1..MaxReseeds |-> IdleReseed]
    /\ handler = [s \in Slots |-> IdleHandler]

NextStart ==
    \/ BootConnect
    \/ BootCreateTable
    \/ BootCount
    \/ BootFetch
    \/ BootInsert
    \/ \E r \in DOMAIN reseed : ReseedFetch(r)
    \/ \E r \in DOMAIN reseed : ReseedTruncate(r)
    \/ \E r \in DOMAIN reseed : ReseedInsert(r)
    \/ \E r \in DOMAIN reseed : ReseedCount(r)

SpecStart == InitStart /\ [][NextStart]_vars

----------------------------------------------------------------------------------------------------------------------------------------------------------------------------------------------------
(* Serving: the requests that query the table are served while the         *)
(* start-up function and GET /api/init requests run.  (/api/combined       *)
(* sends no query to the table; it is served in SpecQuery.)                *)

\* the endpoints whose handlers query the table
StoreEndpoints == Endpoints \ {"combined"}

\* the query strings of the clients
ServeParams == {MonthOnly("March")}

Init == InitStart

Next ==
    \/ BootConnect
    \/ BootCreateTable
    \/ BootCount
    \/ BootFetch
    \/ BootInsert
    \/ \E r \in DOMAIN reseed : ReseedFetch(r)
    \/ \E r \in DOMAIN reseed : ReseedTruncate(r)
    \/ \E r \in DOMAIN reseed : ReseedInsert(r)
    \/ \E r \in DOMAIN reseed : ReseedCount(r)
    \/ ClientRequest(StoreEndpoints, ServeParams)
    \/ ClientDone
    \/ \E s \in Slots : Serve(s)

Spec == Init /\ [][Next]_vars

----------------------------------------------------------------------------
(* Queries on a table that is not written: the inputs of the handlers are  *)
(* the rows of the table and the query string                              *)

\* rows of the table, pages and rows per page
MaxRows == 4
MaxPage == 3
MaxPerPage == 3

ListTitles == <<<<"a", "b">>, <<"B">>, <<"c", " ", "a">>>>
ListPrices == <<5000, 10050, 15000, 90001>>
ListRow(k, m) ==
    [id |-> k,
     title |-> ListTitles[(k % Len(ListTitles)) + 1],
     description |-> <<"d">>,
     price |-> ListPrices[(k % Len(ListPrices)) + 1],
     category |-> CASE k % 3 = 0 -> "A" [] k % 3 = 1 -> "B" [] OTHER -> "a",
     sold |-> (k % 2 = 1),
     date_of_sale |-> [year |-> 2020 + k, month |-> m, day |-> k]]

\* every table of at most MaxRows rows with ids 1, 2, ..., each sold in
\* March or in November of its own year
ListStores ==
    {{ListRow(k, f[k]) : k \in DOMAIN f} :
        f \in UNION {[1..n -> {3, 11}] : n \in 0..MaxRows}}

QueryMonths == {Undefined, "", "march", "March", "November"}
SearchTexts == {<<>>, <<" ">>, <<"\t", "U+00A0">>, <<"B">>, <<"C">>, <<"_", "b">>,
                <<"0", ".", "5">>, <<" ", "a">>}
PageValues == {NoValue} \cup {<<n>> : n \in 0..MaxPage}
PerPageValues == {NoValue} \cup {<<n>> : n \in 0..MaxPerPage}
QueryParams ==
    [month : QueryMonths, search : SearchTexts, page : {NoValue}, perPage : {NoValue}]
    \cup [month : QueryMonths, search : {<<>>}, page : PageValues, perPage : PerPageValues]

InitQuery ==
    /\ tableExists = TRUE
    /\ store \in ListStores
    /\ boot = [IdleBoot EXCEPT !.pc = "done"]
    /\ poolInUse = 0
    /\ remote = DataGood
    /\ reseed = [r \in 1..MaxReseeds |-> IdleReseed]
    /\ handler = [s \in Slots |-> IdleHandler]

NextQuery ==
    \/ ClientRequest(Endpoints, QueryParams)
    \/ ClientDone
    \/ \E s \in Slots : Serve(s)
    \/ \E c \in CombinedCalls : AxiosResolves(c)
    \/ \E c \in CombinedCalls : AxiosRejects(c)

SpecQuery == InitQuery /\ [][NextQuery]_vars

----------------------------------------------------------------------------
(* The bar chart on tables of rows of all prices *)

\* rows of the table
MaxBarRows == 2

\* prices in hundredths: the ends of the ranges, and prices between them
BarPrices == {0, 5000, 10000, 10050, 10100, 20000, 20001, 20100,
              50050, 90000, 90001, 90100, 95000}

BarRow(k, price, m) ==
    [id |-> k, title |-> <<"a">>, description |-> <<"d">>, price |-> price,
     category |-> "A", sold |-> TRUE,
     date_of_sale |-> [year |-> 2020 + k, month |-> m, day |-> k]]

\* a row of any of the prices sold in March, or a row sold in November
BarChoices == (BarPrices \X {3}) \cup {<<5000, 11>>}
BarStores ==
    {{BarRow(k, f[k][1], f[k][2]) : k \in DOMAIN f} :
        f \in UNION {[1..n -> BarChoices] : n \in 0..MaxBarRows}}

BarParams == {MonthOnly("March"), MonthOnly("November")}

InitBar ==
    /\ tableExists = TRUE
    /\ store \in BarStores
    /\ boot = [IdleBoot EXCEPT !.pc = "done"]
    /\ poolInUse = 0
    /\ remote = DataGood
    /\ reseed = [r \in 1..MaxReseeds |-> IdleReseed]
    /\ handler = [s \in Slots |-> IdleHandler]

NextBar ==
    \/ ClientRequest({"barchart"}, BarParams)
    \/ ClientDone
    \/ \E s \in Slots : BarChart(s)

SpecBar == InitBar /\ [][NextBar]_vars

----------------------------------------------------------------------------
(* The properties.  They are stated with the definitions below, which are  *)
(* written from the specification's words and not from the handlers.       *)

TwelveNames ==
    {"January", "February", "March", "April", "May", "June", "July", "August",
     "September", "October", "November", "December"}

Ordinal(name) ==
    CASE name = "January" -> 1 [] name = "February" -> 2 [] name = "March" -> 3
      [] name = "April" -> 4 [] name = "May" -> 5 [] name = "June" -> 6
      [] name = "July" -> 7 [] name = "August" -> 8 [] name = "September" -> 9
      [] name = "October" -> 10 [] name = "November" -> 11 [] name = "December" -> 12

\* the stored records of a calendar month, of any year
RecordsOfMonth(rows, name) == {r \in rows : r.date_of_sale.month = Ordinal(name)}

Elements(seq) == {seq[i] : i \in 1..Len(seq)}

Client == handler["client"]
ClientAnswered(kind) ==
    Client.kind = kind /\ Client.pc = "done" /\ Client.resp.status = 200

\* C1: on each of the five query endpoints, a request whose month is missing
\* or is not one of the twelve names is answered 400, and the request has
\* issued no store query and no outbound call.
InvalidMonthIsRejected ==
    \A s \in Slots :
        (handler[s].kind \in Endpoints /\ handler[s].month \notin TwelveNames)
        => /\ handler[s].pc = "done"
           /\ handler[s].resp.status = 400
           /\ handler[s].dbCalls = 0
           /\ handler[s].outCalls = 0
           /\ \A c \in CombinedCalls : handler[s].calls[c].pc = "none"

InvalidMonthWitness ==
    /\ Client.kind = "combined"
    /\ Client.month = "march"
    /\ Client.resp.status = 400

\* C2: every record /api/transactions returns was sold in the calendar month
\* of the requested name, whatever its year; with no search and no perPage
\* every stored record of that month is returned.
ListReturnsTheMonth ==
    ClientAnswered("transactions") =>
        LET got == Elements(Client.resp.body.transactions) IN
        /\ \A r \in got : r.date_of_sale.month = Ordinal(Client.month)
        /\ (Client.search = <<>> /\ Client.perPage = NoValue)
              => got = RecordsOfMonth(store, Client.month)

ListMonthWitness ==
    /\ ClientAnswered("transactions")
    /\ Client.month = "March"
    /\ Client.search = <<>> /\ Client.perPage = NoValue
    /\ \E r1, r2 \in Elements(Client.resp.body.transactions) :
          r1.date_of_sale.year # r2.date_of_sale.year
    /\ \E r \in store : r.date_of_sale.month = 11

\* C3: with perPage = n >= 1 and page = p >= 1, /api/transactions returns the
\* rows p*n-n+1 .. p*n of the matching rows (as many of them as exist),
\* total is the number of matching rows, and totalPages is the least
\* number k >= 1 with k*n >= total.
PageOfTheMatchingRows ==
    (ClientAnswered("transactions") /\ Client.perPage # NoValue
        /\ Client.perPage[1] >= 1)
    => LET all == ById(Matching(store, Ordinal(Client.month), Client.search))
           n == Client.perPage[1]
           p == IF Client.page = NoValue THEN 1 ELSE Client.page[1]
           body == Client.resp.body
           got == body.transactions
       IN /\ p >= 1
          /\ Len(got) <= n
          /\ Len(got) = Max(0, Min(n, Len(all) - (p - 1) * n))
          /\ \A i \in 1..Len(got) : got[i] = all[(p - 1) * n + i]
          /\ body.total = Len(all)
          /\ body.page = p /\ body.perPage = n
          /\ body.totalPages >= 1
          /\ body.totalPages * n >= body.total
          /\ body.totalPages > 1 => (body.totalPages - 1) * n < body.total

PageWitness ==
    /\ ClientAnswered("transactions")
    /\ Client.page = <<2>> /\ Client.perPage = <<2>>
    /\ Client.resp.body.total = 3
    /\ Len(Client.resp.body.transactions) = 1
    /\ Client.resp.body.transactions[1].id = 3
    /\ Client.resp.body.totalPages = 2

\* C4, as claimed: every /api/statistics response reports soldItems +
\* notSoldItems = the number of records of the month in the table, for a
\* table content the request has read.
StatisticsCountsTheMonth ==
    ClientAnswered("statistics")
    => \E rows \in Client.reads :
          Client.resp.body.soldItems + Client.resp.body.notSoldItems
            = Cardinality(RecordsOfMonth(rows, Client.month))

\* C4, amended: a /api/statistics response whose three queries read one and
\* the same table content (no write fell between them) reports soldItems +
\* notSoldItems = the number of records of the month in that content.
StatisticsCountsPartition ==
    ClientAnswered("statistics")
    => \A rows \in Client.reads :
          Client.reads = {rows}
          => Client.resp.body.soldItems + Client.resp.body.notSoldItems
               = Cardinality(RecordsOfMonth(rows, Client.month))

StatisticsWitness ==
    /\ ClientAnswered("statistics")
    /\ Cardinality(Client.reads) = 1
    /\ Client.resp.body.soldItems = 1
    /\ Client.resp.body.notSoldItems = 1
    /\ Client.resp.body.totalSale = 5000

\* the ten ranges of the bar chart, in hundredths
InRange(price, label) ==
    CASE label = "0-100" -> 0 <= price /\ price <= 10000
      [] label = "101-200" -> 10100 <= price /\ price <= 20000
      [] label = "201-300" -> 20100 <= price /\ price <= 30000
      [] label = "301-400" -> 30100 <= price /\ price <= 40000
      [] label = "401-500" -> 40100 <= price /\ price <= 50000
      [] label = "501-600" -> 50100 <= price /\ price <= 60000
      [] label = "601-700" -> 60100 <= price /\ price <= 70000
      [] label = "701-800" -> 70100 <= price /\ price <= 80000
      [] label = "801-900" -> 80100 <= price /\ price <= 90000
      [] label = "901-above" -> price > 90000

TenLabels == {"0-100", "101-200", "201-300", "301-400", "401-500", "501-600",
              "601-700", "701-800", "801-900", "901-above"}

RECURSIVE SumCounts(_)
SumCounts(seq) == IF seq = <<>> THEN 0 ELSE Head(seq).count + SumCounts(Tail(seq))

\* C5: /api/barchart counts every record of the month under the label of
\* the range its price lies in: '0-100' for [0,100], ..., '801-900' for
\* [801,900], and '901-above' only for prices above 900.
BucketsFollowTheRanges ==
    ClientAnswered("barchart") =>
        \A e \in Elements(Client.resp.body) :
            e.count = Cardinality({r \in RecordsOfMonth(store, Client.month) :
                                      InRange(r.price, e._id)})

\* C6: the counts of /api/barchart sum to the number of records of the
\* month, every label is one of the ten and occurs once, no entry has count
\* 0, and a label that is missing has no record of the month in its range.
BarChartCountsTheMonth ==
    ClientAnswered("barchart") =>
        LET body == Client.resp.body
            recs == RecordsOfMonth(store, Client.month)
        IN /\ SumCounts(body) = Cardinality(recs)
           /\ \A i \in 1..Len(body) : body[i]._id \in TenLabels /\ body[i].count >= 1
           /\ \A i, j \in 1..Len(body) : body[i]._id = body[j]._id => i = j
           /\ \A l \in TenLabels :
                 (\A i \in 1..Len(body) : body[i]._id # l)
                 => ~\E r \in recs : InRange(r.price, l)

BarChartWitness ==
    /\ ClientAnswered("barchart")
    /\ Client.resp.body = <<[_id |-> "0-100", count |-> 1],
                            [_id |-> "101-200", count |-> 1]>>
    /\ Cardinality(store) = 2

\* statistics(month), barChart(month) and pieChart(month), each called on
\* the table content `rows`
CombinedOf(rows, name) ==
    [statistics |->
        [totalSale |-> SumPrice({r \in RecordsOfMonth(rows, name) : r.sold}),
         soldItems |-> Cardinality({r \in RecordsOfMonth(rows, name) : r.sold}),
         notSoldItems |-> Cardinality({r \in RecordsOfMonth(rows, name) : ~r.sold})],
     barchart |-> BarChartQuery(rows, Ordinal(name)),
     piechart |-> PieChartQuery(rows, Ordinal(name))]

\* C7: the body of every /api/combined response is the three results of
\* statistics, barChart and pieChart for the month on the table (here a
\* table that nothing writes).
CombinedIsTheThreeResults ==
    ClientAnswered("combined")
    => Client.resp.body = CombinedOf(store, Client.month)

\* C8: when start-up on an empty table fails (no re-seed has been asked
\* for), the table is empty when it ends.
BootFailureLeavesStoreEmpty ==
    (/\ boot.pc = "done" /\ boot.error
     /\ \A r \in DOMAIN reseed : reseed[r].pc = "idle"
     /\ OldRow \notin store)
    => store = {}

\* C9: every step of a re-seed leaves the table as it was or leaves it
\* holding exactly the fetched dataset.
ReseedIsAtomic ==
    [][reseed' # reseed => (store' = store \/ store' = RowsOf(remote))]_vars

\* C10: when start-up has ended, the connection it took from the pool has
\* been released.
BootReleasesConnection ==
    boot.pc = "done" => (boot.conn = 0 /\ poolInUse = 0)

====
